---------------------------- MODULE Spec2Model ----------------------------
(***************************************************************************)
(* PinoyBot: the feature extractors (src/feature_extractor.py and the      *)
(* InternalFeatureExtractor embedded in src/pinoybot.py) and the tag       *)
(* dispatcher tag_language (src/pinoybot.py).                              *)
(*                                                                         *)
(* A token is a sequence of one-character strings.  Characters are the     *)
(* printable ASCII characters; Python's str predicates are modelled by     *)
(* their behaviour on that range.                                          *)
(***************************************************************************)
EXTENDS Integers, Sequences, FiniteSets, TLC

(***************************************************************************)
(* Bounds of the model.                                                    *)
(***************************************************************************)
MaxTokenLen == 1
MaxTokens == 2
MaxParts == 2

(***************************************************************************)
(* Characters: printable ASCII in code order, codes 32 .. 95 and           *)
(* 97 .. 126 (a string cannot hold the grave accent, code 96).             *)
(***************************************************************************)
ASCII_32_95 ==
  << " ", "!", "\"", "#", "$", "%", "&", "'", "(", ")", "*", "+", ",", "-", ".", "/",
     "0", "1", "2", "3", "4", "5", "6", "7", "8", "9", ":", ";", "<", "=", ">", "?",
     "@", "A", "B", "C", "D", "E", "F", "G", "H", "I", "J", "K", "L", "M", "N", "O",
     "P", "Q", "R", "S", "T", "U", "V", "W", "X", "Y", "Z", "[", "\\", "]", "^", "_" >>

ASCII_97_126 ==
  << "a", "b", "c", "d", "e", "f", "g", "h", "i", "j", "k", "l", "m", "n", "o",
     "p", "q", "r", "s", "t", "u", "v", "w", "x", "y", "z", "{", "|", "}", "~" >>

Codes == (32..95) \cup (97..126)

chr(n) == IF n <= 95 THEN ASCII_32_95[n - 31] ELSE ASCII_97_126[n - 96]

Chars == { chr(n) : n \in Codes }

OrdTable == [ c \in Chars |-> CHOOSE n \in Codes : chr(n) = c ]

ord(c) == OrdTable[c]

c_isupper(c) == ord(c) \in 65..90

c_islower(c) == ord(c) \in 97..122

c_isalpha(c) == c_isupper(c) \/ c_islower(c)

c_isdigit(c) == ord(c) \in 48..57

c_isalnum(c) == c_isalpha(c) \/ c_isdigit(c)

c_lower(c) == IF c_isupper(c) THEN chr(ord(c) + 32) ELSE c

(***************************************************************************)
(* Python str operations on tokens.                                        *)
(***************************************************************************)
lower(s) == [ k \in DOMAIN s |-> c_lower(s[k]) ] \o << >>

\* str.isupper(): at least one cased character and no lower-case character
isupper(s) ==
  /\ \E k \in DOMAIN s : c_isupper(s[k])
  /\ \A k \in DOMAIN s : ~c_islower(s[k])

\* str.isnumeric(): non-empty and every character numeric
isnumeric(s) == Len(s) > 0 /\ \A k \in DOMAIN s : c_isdigit(s[k])

startswith(s, p) == Len(s) >= Len(p) /\ SubSeq(s, 1, Len(p)) = p

endswith(s, p) == Len(s) >= Len(p) /\ SubSeq(s, Len(s) - Len(p) + 1, Len(s)) = p

\* p in s
contains(s, p) == \E k \in 1..(Len(s) - Len(p) + 1) : SubSeq(s, k, k + Len(p) - 1) = p

\* s[1:-1]
inner(s) == SubSeq(s, 2, Len(s) - 1)

\* s.count(c) for a single character c
count(s, c) == Cardinality({ k \in DOMAIN s : s[k] = c })

Vowels == { "a", "e", "i", "o", "u" }

\* number of '-' separated parts of s, and the set of the parts
DashAt(s) == { k \in DOMAIN s : s[k] = "-" }

RECURSIVE split_dash(_)
split_dash(s) ==
  IF DashAt(s) = {} THEN << s >>
  ELSE LET d == CHOOSE k \in DashAt(s) : \A j \in DashAt(s) : k <= j
       IN  << SubSeq(s, 1, d - 1) >> \o split_dash(SubSeq(s, d + 1, Len(s)))

(***************************************************************************)
(* Numeric values.  Python's int and float results are kept as reduced     *)
(* fractions <<numerator, denominator>>, so that 2/4 and 1/2 are equal as  *)
(* they are in Python.                                                     *)
(***************************************************************************)
RECURSIVE gcd(_, _)
gcd(a, b) == IF b = 0 THEN a ELSE gcd(b, a % b)

Num(n, d) == IF n = 0 THEN << 0, 1 >> ELSE << n \div gcd(n, d), d \div gcd(n, d) >>


\* s[a:b] for 0 <= a, 0 <= b (Python slicing clamps to the length)
slice(s, a, b) == SubSeq(s, a + 1, IF b < Len(s) THEN b ELSE Len(s))

(***************************************************************************)
(* Outcome of a Python call: a returned value or a raised exception.       *)
(***************************************************************************)
Ok(v) == << "ok", v >>

Raise(e) == << "raise", e >>

raised(r) == r[1] = "raise"

(***************************************************************************)
(* src/feature_extractor.py                                                *)
(***************************************************************************)
ENG_WORDS ==
  { <<"a">>, <<"a","n">>, <<"t","h","e">>, <<"i","s">>, <<"a","r","e">>, <<"w","a","s">>,
    <<"w","e","r","e">>, <<"h","e">>, <<"s","h","e">>, <<"i","t">>, <<"t","h","e","y">>,
    <<"y","o","u">>, <<"w","e">>, <<"i">>, <<"m","y">>, <<"y","o","u","r">>, <<"h","i","s">>,
    <<"h","e","r">>, <<"i","t","s">>, <<"o","u","r">>, <<"t","h","e","i","r">>, <<"i","n">>,
    <<"o","n">>, <<"a","t">>, <<"o","f">>, <<"t","o">>, <<"f","o","r">>, <<"w","i","t","h">>,
    <<"b","y">>, <<"f","r","o","m">>, <<"a","n","d">>, <<"b","u","t">>, <<"o","r">>,
    <<"a","m">>, <<"m","e">>, <<"h","i","m">>, <<"u","s">>, <<"t","h","e","m">>,
    <<"t","h","i","s">>, <<"t","h","a","t">>, <<"t","h","e","s","e">>, <<"t","h","o","s","e">>,
    <<"b","e">>, <<"b","e","e","n">>, <<"d","o">>, <<"d","o","e","s">>, <<"d","i","d">>,
    <<"h","a","v","e">>, <<"h","a","s">>, <<"h","a","d">>, <<"w","i","l","l">>,
    <<"w","o","u","l","d">>, <<"c","a","n">>, <<"c","o","u","l","d">>,
    <<"s","h","o","u","l","d">>, <<"m","a","y">>, <<"m","i","g","h","t">>, <<"m","u","s","t">>,
    <<"s","o">>, <<"i","f">>, <<"w","h","e","n">>, <<"t","h","e","n">>,
    <<"b","e","c","a","u","s","e">>, <<"a","s">>, <<"w","h","i","l","e">>, <<"t","h","a","n">>,
    <<"a","b","o","u","t">>, <<"a","f","t","e","r">>, <<"b","e","f","o","r","e">>,
    <<"d","o","w","n">>, <<"o","u","t">>, <<"o","v","e","r">>, <<"u","p">>,
    <<"u","n","d","e","r">>, <<"t","h","r","o","u","g","h">>, <<"n","o","t">>, <<"n","o">>,
    <<"y","e","s">>, <<"a","l","l">>, <<"a","n","y">>, <<"s","o","m","e">>,
    <<"v","e","r","y">>, <<"j","u","s","t">>, <<"n","o","w">>, <<"h","e","r","e">>,
    <<"t","h","e","r","e">>, <<"w","h","y">>, <<"h","o","w">>, <<"w","h","a","t">>,
    <<"w","h","i","c","h">>, <<"w","h","o">>, <<"w","h","o","m">> }

FIL_WORDS ==
  { <<"a","n","g">>, <<"m","g","a">>, <<"s","a">>, <<"n","g">>, <<"n","a">>, <<"p","a">>,
    <<"b","a">>, <<"a","y">>, <<"s","i">>, <<"n","i">>, <<"k","a","y">>, <<"k","i","n","a">>,
    <<"a","k","o">>, <<"i","k","a","w">>, <<"s","i","y","a">>, <<"t","a","y","o">>,
    <<"k","a","m","i">>, <<"s","i","l","a">>, <<"i","t","o">>, <<"i","y","a","n">>,
    <<"i","y","o","n">>, <<"k","o">>, <<"m","o">>, <<"n","i","y","a">>,
    <<"n","a","m","i","n">>, <<"n","i","l","a">>, <<"a","t","i","n">>, <<"i","n","y","o">>,
    <<"a","t">>, <<"o">>, <<"p","e","r","o">>, <<"h","i","n","d","i">>, <<"n","a","n","g">>,
    <<"n","i","n","a">>, <<"s","i","n","a">>, <<"n","a","t","i","n">>, <<"p","o">>,
    <<"a","m","i","n">>, <<"d","i","n">>, <<"r","i","n">>, <<"d","a","w">>, <<"r","a","w">>,
    <<"l","a","n","g">>, <<"n","g","a">>, <<"n","a","m","a","n">>, <<"m","a","n">>,
    <<"k","a","s","i">>, <<"y","a","t","a">>, <<"m","u","n","a">>, <<"k","a","y","o">>,
    <<"k","a","n","i","l","a">>, <<"k","a","n","i","y","a">>, <<"d","i","t","o">>,
    <<"d","i","y","a","n">>, <<"d","o","o","n">>, <<"n","i","t","o">>, <<"n","i","y","a","n">>,
    <<"n","i","y","o","n">>, <<"k","a","y","a">>, <<"p","a","r","a">>, <<"d","a","h","i","l">>,
    <<"h","a","b","a","n","g">>, <<"k","a","p","a","g">>, <<"k","u","n","g">>,
    <<"s","a","k","a">>, <<"m","a","y">>, <<"m","e","r","o","n">>, <<"w","a","l","a">>,
    <<"d","a","p","a","t">>, <<"t","a","l","a","g","a">>, <<"m","i","s","m","o">> }

f_get_language(token) ==
  LET token_lower == lower(token)
  IN  IF token_lower \in ENG_WORDS THEN Ok("ENG")
      ELSE IF token_lower \in FIL_WORDS THEN Ok("FIL")
      ELSE Ok("NONE")

\* str.replace(",", "")
RECURSIVE remove_commas(_)
remove_commas(s) ==
  IF s = << >> THEN << >>
  ELSE IF Head(s) = "," THEN remove_commas(Tail(s))
  ELSE << Head(s) >> \o remove_commas(Tail(s))

\* str.strip() of the blanks float() ignores
RECURSIVE strip(_)
strip(s) ==
  IF s = << >> THEN s
  ELSE IF Head(s) = " " THEN strip(Tail(s))
  ELSE IF s[Len(s)] = " " THEN strip(SubSeq(s, 1, Len(s) - 1))
  ELSE s

\* digits, single underscores allowed between digits
digitpart(s) ==
  /\ Len(s) > 0
  /\ \A k \in DOMAIN s : c_isdigit(s[k]) \/ s[k] = "_"
  /\ c_isdigit(s[1]) /\ c_isdigit(s[Len(s)])
  /\ \A k \in 1..(Len(s) - 1) : ~(s[k] = "_" /\ s[k + 1] = "_")

\* digitpart | digitpart "." [digitpart] | "." digitpart
mantissa(s) ==
  \/ digitpart(s)
  \/ \E d \in DOMAIN s :
       /\ s[d] = "."
       /\ LET a == SubSeq(s, 1, d - 1)
              b == SubSeq(s, d + 1, Len(s))
          IN  \/ digitpart(a) /\ (b = << >> \/ digitpart(b))
              \/ a = << >> /\ digitpart(b)

unsigned(s) == IF s # << >> /\ s[1] \in { "+", "-" } THEN Tail(s) ELSE s

\* mantissa [ ("e" | "E") [sign] digitpart ]
decimal(s) ==
  \/ mantissa(s)
  \/ \E e \in DOMAIN s :
       /\ s[e] \in { "e", "E" }
       /\ mantissa(SubSeq(s, 1, e - 1))
       /\ digitpart(unsigned(SubSeq(s, e + 1, Len(s))))

\* whether float(s) succeeds (it raises ValueError otherwise)
float_parses(s) ==
  LET body == unsigned(strip(s))
  IN  \/ lower(body) \in { <<"i","n","f">>, <<"n","a","n">>,
                           <<"i","n","f","i","n","i","t","y">> }
      \/ decimal(body)

\* f_oth_filter with the upper-case test ahead of the laughter test
f_oth_filter_abb_first(token) ==
  LET token_lower == lower(token)
  IN  IF float_parses(remove_commas(token)) THEN Ok("NUMERIC")
      ELSE IF Len(token) > 0 /\ \A k \in DOMAIN token : ~c_isalnum(token[k])
        THEN Ok("SYMBOL")
      ELSE IF (\E k \in DOMAIN token : c_isalpha(token[k])) /\ isupper(token)
        THEN Ok("ABB")
      ELSE IF \/ contains(token_lower, <<"h","a","h","a">>)
              \/ contains(token_lower, <<"h","e","h","e">>)
        THEN Ok("LAUGHTER")
      ELSE Ok("REGULAR")

f_oth_filter(token) ==
  LET token_lower == lower(token)
  IN  IF float_parses(remove_commas(token)) THEN Ok("NUMERIC")
      ELSE IF Len(token) > 0 /\ \A k \in DOMAIN token : ~c_isalnum(token[k])
        THEN Ok("SYMBOL")
      ELSE IF \/ contains(token_lower, <<"h","a","h","a">>)
              \/ contains(token_lower, <<"h","e","h","e">>)
        THEN Ok("LAUGHTER")
      ELSE IF (\E k \in DOMAIN token : c_isalpha(token[k])) /\ isupper(token)
        THEN Ok("ABB")
      ELSE Ok("REGULAR")

\* f_has_pair_vowel_word_duplication with the vowel test ahead of the pair test
f_has_pair_vowel_word_duplication_vowel_first(token) ==
  LET token_str == lower(token)
      parts == split_dash(token_str)
  IN  IF Len(parts) = 2 /\ parts[1] = parts[2] THEN Ok("WORD_dupe")
      ELSE IF \E k \in 1..(Len(token_str) - 1) :
                token_str[k] \in Vowels /\ token_str[k + 1] = token_str[k]
        THEN Ok("VOWEL_dupe")
      ELSE IF \E k \in 1..(Len(token_str) - 3) :
                /\ c_islower(token_str[k]) /\ c_islower(token_str[k + 1])
                /\ token_str[k + 2] = token_str[k]
                /\ token_str[k + 3] = token_str[k + 1]
        THEN Ok("PAIR_dupe")
      ELSE Ok("NO_dupe")

f_has_pair_vowel_word_duplication(token) ==
  LET token_str == lower(token)
      parts == split_dash(token_str)
  IN  IF Len(parts) = 2 /\ parts[1] = parts[2] THEN Ok("WORD_dupe")
      ELSE IF \E k \in 1..(Len(token_str) - 3) :
                /\ c_islower(token_str[k]) /\ c_islower(token_str[k + 1])
                /\ token_str[k + 2] = token_str[k]
                /\ token_str[k + 3] = token_str[k + 1]
        THEN Ok("PAIR_dupe")
      ELSE IF \E k \in 1..(Len(token_str) - 1) :
                token_str[k] \in Vowels /\ token_str[k + 1] = token_str[k]
        THEN Ok("VOWEL_dupe")
      ELSE Ok("NO_dupe")

\* f_prefix_fil with length gates that let a token equal to the prefix through
f_prefix_fil_ungated(token) ==
  LET token_str == lower(token)
      t_len == Len(token_str)
      sw(p) == startswith(token_str, p)
  IN  IF t_len >= 4 /\ sw(<<"m","a","k","i">>) THEN Ok("MAKI")
      ELSE IF t_len >= 4 /\ sw(<<"p","a","k","i">>) THEN Ok("PAKI")
      ELSE IF t_len >= 4 /\ sw(<<"n","a","k","i">>) THEN Ok("NAKI")
      ELSE IF t_len >= 4 /\ sw(<<"p","a","l","a">>) THEN Ok("PALA")
      ELSE IF t_len >= 4 /\ sw(<<"m","a","l","a">>) THEN Ok("MALA")
      ELSE IF t_len >= 4 /\ sw(<<"p","a","n","g">>) THEN Ok("PANG")
      ELSE IF t_len >= 3 /\ sw(<<"m","a","g">>) THEN Ok("MAG")
      ELSE IF t_len >= 3 /\ sw(<<"n","a","g">>) THEN Ok("NAG")
      ELSE IF t_len >= 3 /\ sw(<<"p","a","g">>) THEN Ok("PAG")
      ELSE IF t_len > 2 /\ sw(<<"u","m">>) /\ token_str[3] \in Vowels THEN Ok("UM")
      ELSE IF t_len > 2 /\ sw(<<"i","n">>) /\ token_str[3] \in Vowels THEN Ok("IN")
      ELSE IF t_len > 2 /\ sw(<<"n","i">>) /\ token_str[3] = "l" THEN Ok("NI")
      ELSE IF t_len >= 2 /\ sw(<<"m","a">>) THEN Ok("MA")
      ELSE IF t_len >= 2 /\ sw(<<"p","a">>) THEN Ok("PA")
      ELSE IF t_len >= 2 /\ sw(<<"n","a">>) THEN Ok("NA")
      ELSE IF t_len >= 2 /\ sw(<<"n","g">>) THEN Ok("NG")
      ELSE Ok("NONE")

f_prefix_fil(token) ==
  LET token_str == lower(token)
      t_len == Len(token_str)
      sw(p) == startswith(token_str, p)
  IN  IF t_len > 4 /\ sw(<<"m","a","k","i">>) THEN Ok("MAKI")
      ELSE IF t_len > 4 /\ sw(<<"p","a","k","i">>) THEN Ok("PAKI")
      ELSE IF t_len > 4 /\ sw(<<"n","a","k","i">>) THEN Ok("NAKI")
      ELSE IF t_len > 4 /\ sw(<<"p","a","l","a">>) THEN Ok("PALA")
      ELSE IF t_len > 4 /\ sw(<<"m","a","l","a">>) THEN Ok("MALA")
      ELSE IF t_len > 4 /\ sw(<<"p","a","n","g">>) THEN Ok("PANG")
      ELSE IF t_len > 3 /\ sw(<<"m","a","g">>) THEN Ok("MAG")
      ELSE IF t_len > 3 /\ sw(<<"n","a","g">>) THEN Ok("NAG")
      ELSE IF t_len > 3 /\ sw(<<"p","a","g">>) THEN Ok("PAG")
      ELSE IF t_len > 2 /\ sw(<<"u","m">>) /\ token_str[3] \in Vowels THEN Ok("UM")
      ELSE IF t_len > 2 /\ sw(<<"i","n">>) /\ token_str[3] \in Vowels THEN Ok("IN")
      ELSE IF t_len > 2 /\ sw(<<"n","i">>) /\ token_str[3] = "l" THEN Ok("NI")
      ELSE IF t_len > 2 /\ sw(<<"m","a">>) THEN Ok("MA")
      ELSE IF t_len > 2 /\ sw(<<"p","a">>) THEN Ok("PA")
      ELSE IF t_len > 2 /\ sw(<<"n","a">>) THEN Ok("NA")
      ELSE IF t_len > 2 /\ sw(<<"n","g">>) THEN Ok("NG")
      ELSE Ok("NONE")

\* token_str[0] is evaluated first: an empty token raises IndexError
f_infix_fil(token) ==
  LET token_str == lower(token)
      t_len == Len(token_str)
  IN  IF t_len = 0 THEN Raise("IndexError")
      ELSE IF token_str[1] \notin Vowels /\ t_len > 3 /\ slice(token_str, 1, 3) = <<"i","n">>
        THEN Ok("IN")
      ELSE IF token_str[1] \notin Vowels /\ t_len > 3 /\ slice(token_str, 1, 3) = <<"u","m">>
        THEN Ok("UM")
      ELSE IF t_len > 3 /\ contains(inner(token_str), <<"n","g">>) THEN Ok("NG")
      ELSE Ok("NONE")

\* token_str[-3] is read only when the token is longer than 3
f_suffix_fil(tokens) ==
  LET token_str == lower(tokens)
      third == token_str[Len(token_str) - 2]
  IN  IF Len(token_str) > 3 /\ (third = "u" \/ third \notin { "a", "e", "i", "o" })
        THEN IF endswith(token_str, <<"i","n">>) THEN Ok("IN")
             ELSE IF endswith(token_str, <<"a","n">>) THEN Ok("AN")
             ELSE Ok("NONE")
        ELSE Ok("NONE")

f_eng_bigrams(token) ==
  LET token_str == lower(token)
  IN  IF contains(token_str, <<"t","h">>) THEN Ok("TH")
      ELSE IF contains(token_str, <<"s","h">>) THEN Ok("SH")
      ELSE IF contains(token_str, <<"c","h">>) THEN Ok("CH")
      ELSE IF contains(token_str, <<"w","h">>) THEN Ok("WH")
      ELSE IF contains(token_str, <<"c","k">>) THEN Ok("CK")
      ELSE IF contains(token_str, <<"q","u">>) THEN Ok("QU")
      ELSE IF contains(token_str, <<"i","o","n">>) THEN Ok("ION")
      ELSE Ok("NONE")

f_get_suffix_eng(token) ==
  LET token_str == lower(token)
      t_len == Len(token_str)
      ew(p) == endswith(token_str, p)
  IN  IF t_len > 4 /\ ew(<<"t","i","o","n">>) THEN Ok("TION")
      ELSE IF t_len > 4 /\ ew(<<"s","i","o","n">>) THEN Ok("SION")
      ELSE IF t_len > 4 /\ ew(<<"m","e","n","t">>) THEN Ok("MENT")
      ELSE IF t_len > 4 /\ ew(<<"n","e","s","s">>) THEN Ok("NESS")
      ELSE IF t_len > 4 /\ ew(<<"a","b","l","e">>) THEN Ok("ABLE")
      ELSE IF t_len > 4 /\ ew(<<"i","b","l","e">>) THEN Ok("IBLE")
      ELSE IF t_len > 4 /\ ew(<<"l","e","s","s">>) THEN Ok("LESS")
      ELSE IF t_len > 3 /\ ew(<<"i","n","g">>) THEN Ok("ING")
      ELSE IF t_len > 3 /\ ew(<<"f","u","l">>) THEN Ok("FUL")
      ELSE IF t_len > 3 /\ ew(<<"i","t","y">>) THEN Ok("ITY")
      ELSE IF t_len > 3 /\ ew(<<"e","s","t">>) THEN Ok("EST")
      ELSE IF t_len > 2 /\ ew(<<"e","s">>) THEN Ok("ES")
      ELSE IF t_len > 2 /\ ew(<<"e","d">>) THEN Ok("ED")
      ELSE IF t_len > 2 /\ ew(<<"e","r">>) THEN Ok("ER")
      ELSE IF t_len > 2 /\ ew(<<"l","y">>) THEN Ok("LY")
      ELSE IF t_len > 1 /\ ew(<<"s">>) THEN Ok("S")
      ELSE IF t_len > 1 /\ ew(<<"y">>) THEN Ok("Y")
      ELSE Ok("NONE")

f_contains_letters_cfjqvxz(token) ==
  LET token_str == lower(token)
  IN  IF \E k \in DOMAIN token_str : token_str[k] \in { "c", "f", "j", "q", "v", "x", "z" }
        THEN Ok(1) ELSE Ok(0)

\* letters = [c for c in token_str if c.isalpha()]: the positions of the letters
letters(token_str) == { k \in DOMAIN token_str : c_isalpha(token_str[k]) }

letter_ratio(token, ch) ==
  LET token_str == lower(token)
  IN  IF letters(token_str) = {} THEN Ok(Num(0, 1))
      ELSE Ok(Num(Cardinality({ k \in letters(token_str) : token_str[k] = ch }),
                  Cardinality(letters(token_str))))

f_a_ratio(token) == letter_ratio(token, "a")

f_k_ratio(token) == letter_ratio(token, "k")

f_e_ratio(token) == letter_ratio(token, "e")

f_vowel_consonant_ratio(token) ==
  LET token_str == lower(token)
      v_count == Cardinality({ k \in letters(token_str) : token_str[k] \in Vowels })
      c_count == Cardinality({ k \in letters(token_str) : token_str[k] \notin Vowels })
  IN  IF letters(token_str) = {} THEN Ok(Num(0, 1))
      ELSE IF c_count = 0 THEN Ok(Num(100, 1))
      ELSE Ok(Num(v_count, c_count))

\* [^aeiou\d\W_]: a letter that is not a vowel
f_has_consonant_cluster(token) ==
  LET token_str == lower(token)
      cons(k) == c_isalpha(token_str[k]) /\ token_str[k] \notin Vowels
  IN  IF \E k \in 1..(Len(token_str) - 2) : cons(k) /\ cons(k + 1) /\ cons(k + 2)
        THEN Ok(1) ELSE Ok(0)

\* index is 0-based, as enumerate() gives it; token_str[0] raises on ""
f_is_capitalized_mid_sentence(token, index, tokens) ==
  IF Len(token) = 0 THEN Raise("IndexError")
  ELSE IF ~c_isupper(token[1]) THEN Ok(0)
  ELSE IF index = 0 THEN Ok(0)
  ELSE IF tokens[index] \in { <<".">>, <<"!">>, <<"?">> } THEN Ok(0)
  ELSE Ok(1)

f_first_letter_ascii(token) ==
  IF Len(token) = 0 THEN Raise("IndexError") ELSE Ok(ord(token[1]))

f_last_letter_ascii(token) ==
  IF Len(token) = 0 THEN Raise("IndexError") ELSE Ok(ord(token[Len(token)]))

(***************************************************************************)
(* Python dicts and pandas DataFrames.  A dict is the sequence of its      *)
(* <<key, value>> items in insertion order.  pd.DataFrame(list_of_dicts)   *)
(* has one column per key, in order of first appearance, and one row per   *)
(* dict; a cell is <<value>>, or << >> (NaN) where the dict lacks the key. *)
(***************************************************************************)
\* a sequence given as a function on 1..n, as the tuple of its elements
list(f) == f \o << >>

keys(d) == list([ k \in DOMAIN d |-> d[k][1] ])

has_key(d, name) == \E k \in DOMAIN d : d[k][1] = name

get(d, name) == d[CHOOSE k \in DOMAIN d : d[k][1] = name][2]

RECURSIVE union_keys(_, _)
union_keys(cols, dicts) ==
  IF dicts = << >> THEN cols
  ELSE LET seen == { cols[k] : k \in DOMAIN cols }
           fresh == SelectSeq(keys(Head(dicts)), LAMBDA n : n \notin seen)
       IN  union_keys(cols \o fresh, Tail(dicts))

\* the cell of column name (the c-th column) in the row made from dict d
cell(d, c, name) ==
  IF c <= Len(d) /\ d[c][1] = name THEN << d[c][2] >>
  ELSE IF has_key(d, name) THEN << get(d, name) >>
  ELSE << >>

DataFrame(dicts) ==
  LET columns == union_keys(<< >>, dicts)
  IN  [ columns |-> columns,
        data |-> list([ r \in DOMAIN dicts |->
                        list([ c \in DOMAIN columns |-> cell(dicts[r], c, columns[c]) ]) ]) ]

col_index(df, name) == CHOOSE c \in DOMAIN df.columns : df.columns[c] = name

\* select_columns leaving out the first of the requested columns
select_columns_dropping_first(df, cols) ==
  IF \E k \in DOMAIN cols : \A c \in DOMAIN df.columns : df.columns[c] # cols[k]
    THEN Raise("KeyError")
    ELSE LET kept == Tail(cols)
             at == list([ k \in DOMAIN kept |-> col_index(df, kept[k]) ])
         IN  Ok([ columns |-> kept,
                  data |-> list([ r \in DOMAIN df.data |->
                                  list([ k \in DOMAIN kept |-> df.data[r][at[k]] ]) ]) ])

\* df[cols] for a list of column names: KeyError when one is not a column
select_columns(df, cols) ==
  IF \E k \in DOMAIN cols : \A c \in DOMAIN df.columns : df.columns[c] # cols[k]
    THEN Raise("KeyError")
    ELSE LET at == list([ k \in DOMAIN cols |-> col_index(df, cols[k]) ])
         IN  Ok([ columns |-> cols,
                  data |-> list([ r \in DOMAIN df.data |->
                                  list([ k \in DOMAIN cols |-> df.data[r][at[k]] ]) ]) ])

\* the outcomes of a sequence of calls made in order: the first exception
\* raised, or the list of the returned values
in_order(calls) ==
  LET rs == list(calls)
  IN  IF \E k \in DOMAIN rs : raised(rs[k])
        THEN rs[CHOOSE k \in DOMAIN rs : raised(rs[k]) /\ \A j \in 1..(k - 1) : ~raised(rs[j])]
        ELSE Ok(list([ k \in DOMAIN rs |-> rs[k][2] ]))

token_only_features ==
  << "f_get_language", "f_oth_filter", "f_has_pair_vowel_word_duplication",
     "f_prefix_fil", "f_infix_fil", "f_suffix_fil", "f_eng_bigrams",
     "f_get_suffix_eng", "f_contains_letters_cfjqvxz", "f_a_ratio", "f_k_ratio",
     "f_e_ratio", "f_vowel_consonant_ratio", "f_has_consonant_cluster",
     "f_first_letter_ascii", "f_last_letter_ascii" >>

contextual_features == << "f_is_capitalized_mid_sentence" >>

\* func(token) for the function named func
call_token_only(func, token) ==
  CASE func = "f_get_language" -> f_get_language(token)
    [] func = "f_oth_filter" -> f_oth_filter(token)
    [] func = "f_has_pair_vowel_word_duplication" -> f_has_pair_vowel_word_duplication(token)
    [] func = "f_prefix_fil" -> f_prefix_fil(token)
    [] func = "f_infix_fil" -> f_infix_fil(token)
    [] func = "f_suffix_fil" -> f_suffix_fil(token)
    [] func = "f_eng_bigrams" -> f_eng_bigrams(token)
    [] func = "f_get_suffix_eng" -> f_get_suffix_eng(token)
    [] func = "f_contains_letters_cfjqvxz" -> f_contains_letters_cfjqvxz(token)
    [] func = "f_a_ratio" -> f_a_ratio(token)
    [] func = "f_k_ratio" -> f_k_ratio(token)
    [] func = "f_e_ratio" -> f_e_ratio(token)
    [] func = "f_vowel_consonant_ratio" -> f_vowel_consonant_ratio(token)
    [] func = "f_has_consonant_cluster" -> f_has_consonant_cluster(token)
    [] func = "f_first_letter_ascii" -> f_first_letter_ascii(token)
    [] func = "f_last_letter_ascii" -> f_last_letter_ascii(token)

call_contextual(func, token, i, tokens) ==
  CASE func = "f_is_capitalized_mid_sentence" -> f_is_capitalized_mid_sentence(token, i, tokens)

\* features_of with the contextual features left out for the first token
features_of_without_context_at_start(tokens, i) ==
  LET token == tokens[i + 1]
      names == IF i = 0 THEN token_only_features
               ELSE token_only_features \o contextual_features
      calls == [ k \in DOMAIN names |->
                 IF k <= Len(token_only_features)
                   THEN call_token_only(names[k], token)
                   ELSE call_contextual(names[k], token, i, tokens) ]
      values == in_order(calls)
  IN  IF raised(values) THEN values
      ELSE Ok(list([ k \in DOMAIN names |-> << names[k], values[2][k] >> ]))

\* the body of the loop of extract_features for the token at 0-based index i:
\* the dict features, or the exception a feature function raised
features_of(tokens, i) ==
  LET token == tokens[i + 1]
      names == token_only_features \o contextual_features
      calls == [ k \in DOMAIN names |->
                 IF k <= Len(token_only_features)
                   THEN call_token_only(names[k], token)
                   ELSE call_contextual(names[k], token, i, tokens) ]
      values == in_order(calls)
  IN  IF raised(values) THEN values
      ELSE Ok(list([ k \in DOMAIN names |-> << names[k], values[2][k] >> ]))

extract_features(tokens) ==
  LET all_features_list == in_order([ r \in DOMAIN tokens |-> features_of(tokens, r - 1) ])
  IN  IF raised(all_features_list) THEN all_features_list
      ELSE Ok(DataFrame(all_features_list[2]))

(***************************************************************************)
(* src/pinoybot.py                                                         *)
(***************************************************************************)
ENGLISH_WORDS ==
  { <<"l","o","v","e">>, <<"a","p","p","l","e">>, <<"c","o","m","p","u","t","e","r">>,
    <<"s","c","h","o","o","l">>, <<"t","e","a","c","h","e","r">>, <<"f","r","i","e","n","d">>,
    <<"t","o","d","a","y">> }

FILIPINO_WORDS ==
  { <<"k","i","t","a">>, <<"k","a","m","u","s","t","a">>, <<"a","k","o">>, <<"i","k","a","w">>,
    <<"b","a","k","i","t">>, <<"h","i","n","d","i">>, <<"t","a","l","a","g","a">>,
    <<"s","i","r","a">>, <<"n","a">>, <<"a","n","g">>, <<"a","y">>, <<"y","u","n","g">>,
    <<"g","r","a","b","e">> }

FEATURE_COLS ==
  << "f_is_english_word", "f_is_filipino_word", "f_is_laughter_expression",
     "f_is_fully_capitalized", "f_is_pure_symbol", "f_is_numeric",
     "f_has_dash_duplication", "f_has_pair_duplication", "f_has_vowel_duplication",
     "f_prefix_um", "f_prefix_in", "f_prefix_ni", "f_prefix_ma", "f_prefix_pa",
     "f_prefix_na", "f_prefix_mag", "f_prefix_nag", "f_prefix_pala",
     "f_prefix_mala", "f_prefix_pang", "f_infix_in", "f_infix_um",
     "f_suffix_in", "f_suffix_an", "f_startswith_ng", "f_has_pair_ng",
     "f_has_pair_th", "f_contains_letters_cfjqvxz", "f_a_ratio",
     "f_k_ratio", "f_e_ratio", "f_vowel_consonant_ratio",
     "f_has_consonant_cluster", "f_is_capitalized_mid_sentence" >>

is_true(condition) == IF condition THEN 1 ELSE 0

get_vowel_consonant_ratio(word) ==
  LET w == lower(word)
      v_count == Cardinality({ k \in DOMAIN w : w[k] \in Vowels })
      c_count == Cardinality({ k \in DOMAIN w : c_isalpha(w[k]) /\ w[k] \notin Vowels })
  IN  IF c_count = 0 THEN Num(v_count, 1) ELSE Num(v_count, c_count)

\* re.match(r'^(h[aeiou]|j[e])[hjaeiou]*$', t_lower)
laughter_match(t_lower) ==
  /\ Len(t_lower) >= 2
  /\ \/ t_lower[1] = "h" /\ t_lower[2] \in Vowels
     \/ t_lower[1] = "j" /\ t_lower[2] = "e"
  /\ \A k \in 3..Len(t_lower) : t_lower[k] \in ({ "h", "j" } \cup Vowels)

\* t_lower.count(ch) / len(t_lower) if len(t_lower) > 0 else 0
char_ratio(t_lower, ch) ==
  IF Len(t_lower) > 0 THEN Num(count(t_lower, ch), Len(t_lower)) ELSE Num(0, 1)

\* the dict literal built for the token at 0-based index i; its items are
\* evaluated in order, and the last one reads token[0]
internal_features(tokens, i) ==
  LET token == tokens[i + 1]
      t_lower == lower(token)
      sw(p) == is_true(startswith(t_lower, p))
      parts == split_dash(t_lower)
  IN  IF Len(token) = 0 THEN Raise("IndexError")
      ELSE Ok(<<
        << "f_is_english_word", is_true(t_lower \in ENGLISH_WORDS) >>,
        << "f_is_filipino_word", is_true(t_lower \in FILIPINO_WORDS) >>,
        << "f_is_laughter_expression", is_true(laughter_match(t_lower)) >>,
        << "f_is_fully_capitalized", is_true(isupper(token)) >>,
        << "f_is_pure_symbol", is_true(~ \E k \in DOMAIN token : c_isalnum(token[k])) >>,
        << "f_is_numeric", is_true(isnumeric(token)) >>,
        << "f_has_dash_duplication",
           is_true(contains(t_lower, <<"-">>)
                   /\ Cardinality({ parts[k] : k \in DOMAIN parts }) = 1) >>,
        << "f_has_pair_duplication",
           is_true(\E k \in 1..(Len(t_lower) - 1) : t_lower[k + 1] = t_lower[k]) >>,
        << "f_has_vowel_duplication",
           is_true(\E k \in 1..(Len(t_lower) - 1) :
                     t_lower[k] \in Vowels /\ t_lower[k + 1] = t_lower[k]) >>,
        << "f_prefix_um", sw(<<"u","m">>) >>,
        << "f_prefix_in", sw(<<"i","n">>) >>,
        << "f_prefix_ni", sw(<<"n","i">>) >>,
        << "f_prefix_ma", sw(<<"m","a">>) >>,
        << "f_prefix_pa", sw(<<"p","a">>) >>,
        << "f_prefix_na", sw(<<"n","a">>) >>,
        << "f_prefix_mag", sw(<<"m","a","g">>) >>,
        << "f_prefix_nag", sw(<<"n","a","g">>) >>,
        << "f_prefix_pala", sw(<<"p","a","l","a">>) >>,
        << "f_prefix_mala", sw(<<"m","a","l","a">>) >>,
        << "f_prefix_pang", sw(<<"p","a","n","g">>) >>,
        << "f_infix_in",
           is_true(Len(t_lower) > 2 /\ contains(inner(t_lower), <<"i","n">>)) >>,
        << "f_infix_um",
           is_true(Len(t_lower) > 2 /\ contains(inner(t_lower), <<"u","m">>)) >>,
        << "f_suffix_in", is_true(endswith(t_lower, <<"i","n">>)) >>,
        << "f_suffix_an", is_true(endswith(t_lower, <<"a","n">>)) >>,
        << "f_startswith_ng", sw(<<"n","g">>) >>,
        << "f_has_pair_ng", is_true(contains(t_lower, <<"n","g">>)) >>,
        << "f_has_pair_th", is_true(contains(t_lower, <<"t","h">>)) >>,
        << "f_contains_letters_cfjqvxz",
           is_true(\E k \in DOMAIN t_lower :
                     t_lower[k] \in { "c", "f", "j", "q", "v", "x", "z" }) >>,
        << "f_a_ratio", char_ratio(t_lower, "a") >>,
        << "f_k_ratio", char_ratio(t_lower, "k") >>,
        << "f_e_ratio", char_ratio(t_lower, "e") >>,
        << "f_vowel_consonant_ratio", get_vowel_consonant_ratio(token) >>,
        << "f_has_consonant_cluster",
           is_true(\E k \in 1..(Len(t_lower) - 2) :
                     \A j \in k..(k + 2) :
                       c_islower(t_lower[j]) /\ t_lower[j] \notin Vowels) >>,
        << "f_is_capitalized_mid_sentence", is_true(c_isupper(token[1]) /\ i > 0) >>
      >>)

\* internal_extract_features with empty tokens skipped instead of read
internal_extract_features_skipping_empty(tokens) ==
  LET kept == SelectSeq(list([ r \in DOMAIN tokens |-> r ]), LAMBDA r : Len(tokens[r]) > 0)
  IN  Ok(DataFrame(list([ k \in DOMAIN kept |-> internal_features(tokens, kept[k] - 1)[2] ])))

\* InternalFeatureExtractor.extract_features
internal_extract_features(tokens) ==
  LET feature_list == in_order([ r \in DOMAIN tokens |-> internal_features(tokens, r - 1) ])
  IN  IF raised(feature_list) THEN feature_list
      ELSE Ok(DataFrame(feature_list[2]))

(***************************************************************************)
(* The pickled classifier is an opaque collaborator.  Its predict() either *)
(* raises or returns one label per row of the table, computed from the     *)
(* row's values by column position; decision_rule stands for the fitted    *)
(* tree.                                                                   *)
(***************************************************************************)
decision_rule(x) ==
  IF x[6] = << 1 >> \/ x[5] = << 1 >> \/ x[3] = << 1 >> \/ x[34] = << 1 >> THEN "OTH"
  ELSE IF x[2] = << 1 >> THEN "FIL"
  ELSE IF x[1] = << 1 >> \/ x[28] = << 1 >> THEN "ENG"
  ELSE "FIL"

predict(X) == [ r \in DOMAIN X.data |-> decision_rule(X.data[r]) ]

\* fallback_labels without the multiplication by len(tokens)
fallback_labels_single(toks) == << "OTH" >>

\* ['OTH'] * len(tokens)
fallback_labels(toks) == [ k \in DOMAIN toks |-> "OTH" ]

(***************************************************************************)
(* Inputs.                                                                 *)
(***************************************************************************)
Alphabet == { "a", "K", "." }

Tokens == UNION { [ 1..n -> Alphabet ] : n \in 0..MaxTokenLen }

TokenLists == UNION { [ 1..n -> Tokens ] : n \in 0..MaxTokens }

ShortTokenLists == { l \in TokenLists : Len(l) <= 1 }

Threads == { 1, 2 }

MainThread == CHOOSE t \in Threads : \A u \in Threads : t <= u

(***************************************************************************)
(* State.                                                                  *)
(*   _MODEL       the module global _MODEL: None, or the object the n-th   *)
(*                pickle.load returned (n >= 1)                            *)
(*   file_exists  whether MODEL_FILENAME exists in the working directory   *)
(*   loads        number of pickle.load calls made so far                  *)
(*   pc           per thread: the line of tag_language it is about to run  *)
(*   tokens, df_features   per thread: the locals of tag_language          *)
(*   outcome      per thread: what the finished call returned or raised    *)
(*   exit_line    per thread: the line of the return or raise taken        *)
(*   x_tokens, x_result    argument and outcome of the last call of        *)
(*                feature_extractor.extract_features                       *)
(*   f_name, f_token, f_value   name, argument and outcome of the last     *)
(*                call of one feature function of feature_extractor        *)
(***************************************************************************)
VARIABLES _MODEL, file_exists, loads, pc, tokens, df_features, outcome, exit_line,
          x_tokens, x_result, f_name, f_token, f_value

vars == << _MODEL, file_exists, loads, pc, tokens, df_features, outcome, exit_line,
           x_tokens, x_result, f_name, f_token, f_value >>

\* the variables of a feature function call
f_vars == << f_name, f_token, f_value >>

None == 0

Unset == << "none" >>

Init ==
  /\ _MODEL = None
  /\ file_exists \in BOOLEAN
  /\ loads = 0
  /\ pc = [ t \in Threads |-> "idle" ]
  /\ tokens = [ t \in Threads |-> << >> ]
  /\ df_features = [ t \in Threads |-> Unset ]
  /\ outcome = [ t \in Threads |-> Unset ]
  /\ exit_line = [ t \in Threads |-> 0 ]
  /\ x_tokens = << >>
  /\ x_result = Unset
  /\ f_name = "none"
  /\ f_token = << >>
  /\ f_value = Unset

\* control leaves tag_language at line ln with outcome r
Exit(t, ln, r) ==
  /\ pc' = [ pc EXCEPT ![t] = "done" ]
  /\ outcome' = [ outcome EXCEPT ![t] = r ]
  /\ exit_line' = [ exit_line EXCEPT ![t] = ln ]

Goto(t, label) ==
  /\ pc' = [ pc EXCEPT ![t] = label ]
  /\ UNCHANGED << outcome, exit_line >>

\* a caller enters tag_language(toks)
Enter(t, toks) ==
  /\ pc[t] = "idle"
  /\ x_result = Unset
  /\ tokens' = [ tokens EXCEPT ![t] = toks ]
  /\ Goto(t, "L105")
  /\ UNCHANGED << _MODEL, file_exists, loads, df_features, x_tokens, x_result, f_vars >>

\* sequential use: one call at a time
Call(t) ==
  /\ \A u \in Threads : pc[u] = "idle"
  /\ \E toks \in TokenLists : Enter(t, toks)

\* concurrent use: callers enter independently
CallConcurrently(t) == \E toks \in ShortTokenLists : Enter(t, toks)

\* CheckModel without the test of the cache: every call goes on to load
CheckModel_reloading(t) ==
  /\ pc[t] = "L105"
  /\ Goto(t, "L106")
  /\ UNCHANGED << _MODEL, file_exists, loads, tokens, df_features, x_tokens, x_result, f_vars >>

\* line 105: if _MODEL is None
CheckModel(t) ==
  /\ pc[t] = "L105"
  /\ Goto(t, IF _MODEL = None THEN "L106" ELSE "L113")
  /\ UNCHANGED << _MODEL, file_exists, loads, tokens, df_features, x_tokens, x_result, f_vars >>

\* CheckFile degrading to the fallback labels instead of raising
CheckFile_degrading(t) ==
  /\ pc[t] = "L106"
  /\ IF file_exists THEN Goto(t, "L108") ELSE Exit(t, 107, Ok(fallback_labels(tokens[t])))
  /\ UNCHANGED << _MODEL, file_exists, loads, tokens, df_features, x_tokens, x_result, f_vars >>

\* lines 106-107: if not os.path.exists(MODEL_FILENAME): raise FileNotFoundError
CheckFile(t) ==
  /\ pc[t] = "L106"
  /\ IF file_exists THEN Goto(t, "L108") ELSE Exit(t, 107, Raise("FileNotFoundError"))
  /\ UNCHANGED << _MODEL, file_exists, loads, tokens, df_features, x_tokens, x_result, f_vars >>

\* lines 108-109: with open(...) as f: _MODEL = pickle.load(f)
\* open() raises FileNotFoundError when the file was removed since line 106
LoadModel(t) ==
  /\ pc[t] = "L108"
  /\ IF file_exists
       THEN /\ loads' = loads + 1
            /\ _MODEL' = loads + 1
            /\ Goto(t, "L113")
       ELSE /\ Exit(t, 108, Raise("FileNotFoundError"))
            /\ UNCHANGED << _MODEL, loads >>
  /\ UNCHANGED << file_exists, tokens, df_features, x_tokens, x_result, f_vars >>

\* line 113: df_features = _EXTRACTOR.extract_features(tokens)
Extract(t) ==
  /\ pc[t] = "L113"
  /\ LET r == internal_extract_features(tokens[t])
     IN  IF raised(r)
           THEN Exit(t, 113, r) /\ UNCHANGED df_features
           ELSE Goto(t, "L118") /\ df_features' = [ df_features EXCEPT ![t] = r ]
  /\ UNCHANGED << _MODEL, file_exists, loads, tokens, x_tokens, x_result, f_vars >>

\* lines 117-121: df_features = df_features[FEATURE_COLS], KeyError -> all OTH
SelectColumns(t) ==
  /\ pc[t] = "L118"
  /\ LET r == select_columns(df_features[t][2], FEATURE_COLS)
     IN  IF raised(r)
           THEN Exit(t, 121, Ok(fallback_labels(tokens[t]))) /\ UNCHANGED df_features
           ELSE Goto(t, "L125") /\ df_features' = [ df_features EXCEPT ![t] = r ]
  /\ UNCHANGED << _MODEL, file_exists, loads, tokens, x_tokens, x_result, f_vars >>

\* lines 124-129: return list(_MODEL.predict(df_features)), Exception -> all OTH
Predict(t) ==
  /\ pc[t] = "L125"
  /\ \/ Exit(t, 126, Ok(predict(df_features[t][2])))
     \/ Exit(t, 129, Ok(fallback_labels(tokens[t])))
  /\ UNCHANGED << _MODEL, file_exists, loads, tokens, df_features, x_tokens, x_result, f_vars >>

\* the caller takes the outcome; the call's locals are gone
Leave(t) ==
  /\ pc[t] = "done"
  /\ pc' = [ pc EXCEPT ![t] = "idle" ]
  /\ tokens' = [ tokens EXCEPT ![t] = << >> ]
  /\ df_features' = [ df_features EXCEPT ![t] = Unset ]
  /\ outcome' = [ outcome EXCEPT ![t] = Unset ]
  /\ exit_line' = [ exit_line EXCEPT ![t] = 0 ]
  /\ UNCHANGED << _MODEL, file_exists, loads, x_tokens, x_result, f_vars >>

\* the environment puts the model file in place, or removes it
InstallModelFile ==
  /\ ~file_exists
  /\ file_exists' = TRUE
  /\ UNCHANGED << _MODEL, loads, pc, tokens, df_features, outcome, exit_line,
                  x_tokens, x_result, f_vars >>

RemoveModelFile ==
  /\ file_exists
  /\ file_exists' = FALSE
  /\ UNCHANGED << _MODEL, loads, pc, tokens, df_features, outcome, exit_line,
                  x_tokens, x_result, f_vars >>

\* a call of feature_extractor.extract_features(toks), as train_model.py makes
CallExtractFeatures ==
  /\ \A u \in Threads : pc[u] = "idle"
  /\ x_result = Unset
  /\ \E toks \in TokenLists :
       /\ x_tokens' = toks
       /\ x_result' = extract_features(toks)
  /\ UNCHANGED << _MODEL, file_exists, loads, pc, tokens, df_features, outcome, exit_line, f_vars >>

LeaveExtractFeatures ==
  /\ x_result # Unset
  /\ x_tokens' = << >>
  /\ x_result' = Unset
  /\ UNCHANGED << _MODEL, file_exists, loads, pc, tokens, df_features, outcome, exit_line, f_vars >>

Step(t) ==
  \/ CheckModel(t)
  \/ CheckFile(t)
  \/ LoadModel(t)
  \/ Extract(t)
  \/ SelectColumns(t)
  \/ Predict(t)
  \/ Leave(t)

Next ==
  \/ Call(MainThread)
  \/ Step(MainThread)
  \/ InstallModelFile
  \/ RemoveModelFile
  \/ CallExtractFeatures
  \/ LeaveExtractFeatures

Spec == Init /\ [][Next]_vars

NextConcurrent ==
  \/ \E t \in Threads : CallConcurrently(t) \/ Step(t)
  \/ InstallModelFile
  \/ RemoveModelFile

SpecConcurrent == Init /\ [][NextConcurrent]_vars

(***************************************************************************)
(* Calls of single feature functions.  A token is put together from at     *)
(* most MaxParts pieces (letters, digits, punctuation and the affixes the  *)
(* functions look for), or is one of the example tokens.                   *)
(***************************************************************************)
Parts ==
  { <<"a">>, <<"i">>, <<"u">>, <<"k">>, <<"l">>, <<"t">>, <<"1">>, <<",">>, <<".">>, <<"-">>,
    <<"_">>, <<"n","g">>, <<"i","n">>, <<"a","n">>, <<"u","m">>, <<"m","a">>, <<"n","i">>,
    <<"t","a">>, <<"h","a">>, <<"h","e">>, <<"H","A">>, <<"m","a","g">>, <<"m","a","k","i">>,
    <<"p","a","n","g">> }

Examples ==
  { <<"1","0","0",",","0","0","0",".","0","0">>, <<"H","A","H","A","H","A">>,
    <<"a","r","a","w","-","a","r","a","w">>, <<"t","a","t","a","k","b","o">>,
    <<"u","m","i","i","y","a","k">>, <<"a","r","a","w">>, <<"l","u","t","u","i","n">>,
    <<"p","u","n","t","a","h","a","n">>, <<"k","i","n","a","i","n">>,
    <<"p","u","m","u","n","t","a">>, <<"p","a","n","g","a","l","a","n">>, <<"k","1","i","n">>,
    <<"1","i","n","o","m">>, <<"a","t">>, <<"m","a","y">>, <<"t","h","e">>, <<"a","k","o">>,
    <<"N","A","S","A">>, <<"h","e","h","e","h","e">>,
    <<"n","a","k","a","k","a","a","w","a">>, <<"h","a","h","a","-","h","a","h","a">>, <<"l","o","g","-","i","n">> }

RECURSIVE Composed(_)
Composed(n) ==
  IF n = 0 THEN { << >> }
  ELSE LET shorter == Composed(n - 1)
       IN  shorter \cup { s \o p : s \in shorter, p \in Parts }

FeatureTokens == Examples \cup Composed(MaxParts)

\* the interpreter holds one token; no feature function has been called
InitFeatures ==
  /\ _MODEL = None
  /\ file_exists = FALSE
  /\ loads = 0
  /\ pc = [ t \in Threads |-> "idle" ]
  /\ tokens = [ t \in Threads |-> << >> ]
  /\ df_features = [ t \in Threads |-> Unset ]
  /\ outcome = [ t \in Threads |-> Unset ]
  /\ exit_line = [ t \in Threads |-> 0 ]
  /\ x_tokens = << >>
  /\ x_result = Unset
  /\ f_name = "none"
  /\ f_token \in FeatureTokens
  /\ f_value = Unset

\* func(token), the call extract_features makes for each token
CallFeature(func) ==
  /\ f_name = "none"
  /\ f_name' = func
  /\ f_value' = call_token_only(func, f_token)
  /\ UNCHANGED << _MODEL, file_exists, loads, pc, tokens, df_features, outcome, exit_line,
                  x_tokens, x_result, f_token >>

NextFeatures ==
  \/ CallFeature("f_get_language")
  \/ CallFeature("f_oth_filter")
  \/ CallFeature("f_has_pair_vowel_word_duplication")
  \/ CallFeature("f_prefix_fil")
  \/ CallFeature("f_infix_fil")
  \/ CallFeature("f_suffix_fil")

SpecFeatures == InitFeatures /\ [][NextFeatures]_vars

(***************************************************************************)
(* Properties.                                                             *)
(***************************************************************************)
Enders == { <<".">>, <<"!">>, <<"?">> }

returned(t) == pc[t] = "done" /\ outcome[t][1] = "ok"

\* the value of column name in row r of the table df
value_at(df, r, name) == df.data[r][col_index(df, name)]

\* the label the classifier gives the token at position i of toks
label_of(toks, i) ==
  LET d == internal_features(toks, i - 1)[2]
  IN  decision_rule([ k \in DOMAIN FEATURE_COLS |-> << get(d, FEATURE_COLS[k]) >> ])

\* the line-118 selection failed in the call thread t has finished
selection_failed(t) ==
  /\ df_features[t] # Unset
  /\ raised(select_columns(df_features[t][2], FEATURE_COLS))

\* C1: the only error a call of tag_language raises to its caller is the
\* missing-model error (FileNotFoundError); no error of feature extraction
\* reaches the caller, whatever the tokens (the empty string included).
C1_OnlyModelMissingIsRaised ==
  \A t \in Threads :
    (pc[t] = "done" /\ raised(outcome[t])) => outcome[t][2] = "FileNotFoundError"

\* C2: whenever tag_language returns, on the success path or a fallback path,
\* the label list has one entry per token, and entry i is the label of token
\* i: the classifier's label of that token's features on success, OTH on a
\* fallback.
C2_LengthAndOrderPreserved ==
  \A t \in Threads :
    returned(t) =>
      /\ Len(outcome[t][2]) = Len(tokens[t])
      /\ \A i \in 1..Len(tokens[t]) :
           outcome[t][2][i] = IF exit_line[t] = 126 THEN label_of(tokens[t], i) ELSE "OTH"

C2_Witness ==
  /\ returned(MainThread)
  /\ exit_line[MainThread] = 126
  /\ Len(tokens[MainThread]) = 2
  /\ outcome[MainThread][2][1] # outcome[MainThread][2][2]

\* C3: when the column selection fails or predict fails, tag_language does
\* not raise: it returns OTH for every token of the batch and nothing else.
C3_FallbackIsAllOTH ==
  \A t \in Threads :
    (pc[t] = "done" /\ (selection_failed(t) \/ exit_line[t] = 129)) =>
      /\ outcome[t][1] = "ok"
      /\ Len(outcome[t][2]) = Len(tokens[t])
      /\ \A i \in 1..Len(outcome[t][2]) : outcome[t][2][i] = "OTH"

C3_Witness ==
  /\ pc[MainThread] = "done"
  /\ exit_line[MainThread] = 129
  /\ Len(tokens[MainThread]) = 2
  /\ predict(df_features[MainThread][2])[1] # "OTH"
  /\ outcome[MainThread][2] = << "OTH", "OTH" >>

\* C4: a call that finds no cached model and no model file raises
\* FileNotFoundError at once: nothing has been extracted or predicted, the
\* cache stays unset, and no call returns labels while no model is loaded.
C4_MissingModelFailsFast ==
  [][\A t \in Threads :
       /\ (pc[t] = "L106" /\ ~file_exists /\ pc'[t] # "L106") =>
            /\ pc'[t] = "done"
            /\ outcome'[t] = Raise("FileNotFoundError")
       /\ (pc'[t] = "done" /\ outcome'[t] = Raise("FileNotFoundError")) =>
            /\ df_features'[t] = Unset
            /\ _MODEL' = None
            /\ loads' = 0
       /\ (pc'[t] \in { "L113", "L118", "L125" } \/ returned(t)') => _MODEL' # None
    ]_vars

C4_Witness ==
  /\ pc[MainThread] = "done"
  /\ outcome[MainThread] = Raise("FileNotFoundError")
  /\ exit_line[MainThread] = 107
  /\ Len(tokens[MainThread]) = 2
  /\ _MODEL = None

\* C5: over sequential calls the model is loaded by the first call that
\* finds the file, and at most once: once _MODEL is set no later step
\* reassigns it or loads again, whatever the outcome of the calls.
C5_LoadedOnceThenKept ==
  [][/\ loads' <= 1
     /\ (_MODEL # None) => (_MODEL' = _MODEL /\ loads' = loads)
     /\ \A t \in Threads :
          (pc[t] = "L108" /\ file_exists /\ pc'[t] # "L108") =>
            (_MODEL' # None /\ loads' = 1)
    ]_vars

C5_Witness ==
  /\ loads = 1
  /\ _MODEL # None
  /\ ~file_exists
  /\ pc[MainThread] = "done"
  /\ exit_line[MainThread] = 129

\* C6: when callers run tag_language concurrently while the cache is empty,
\* the model file is loaded at most once.
C6_ConcurrentLoadAtMostOnce == loads <= 1

\* C7: feature_extractor.extract_features raises on no token sequence: every
\* feature function accepts every token, the empty string included.
C7_EmptyTokenAccepted == x_result # Unset => ~raised(x_result)

\* C8: when extract_features returns for a non-empty token sequence, the
\* table has one row per token in input order, and every row has a value
\* for each of the 16 token-only features followed by the contextual one,
\* in that declared order.
C8_OneFullRowPerToken ==
  (x_result # Unset /\ ~raised(x_result) /\ Len(x_tokens) > 0) =>
    LET X == x_result[2]
    IN  /\ X.columns = token_only_features \o contextual_features
        /\ Len(X.columns) = 17
        /\ Len(X.data) = Len(x_tokens)
        /\ \A r \in DOMAIN X.data :
             /\ Len(X.data[r]) = Len(X.columns)
             /\ \A c \in DOMAIN X.data[r] : X.data[r][c] # << >>
             /\ value_at(X, r, "f_first_letter_ascii") = << ord(x_tokens[r][1]) >>
             /\ value_at(X, r, "f_last_letter_ascii")
                  = << ord(x_tokens[r][Len(x_tokens[r])]) >>

C8_Witness ==
  /\ x_result # Unset
  /\ ~raised(x_result)
  /\ Len(x_tokens) = 2
  /\ x_tokens[1] # x_tokens[2]
  /\ Len(x_result[2].data) = 2

\* the flag the specification gives the token at position i of toks
capitalized_mid_sentence(toks, i) ==
  IF c_isupper(toks[i][1]) /\ i > 1 /\ toks[i - 1] \notin Enders THEN 1 ELSE 0

\* C9: for non-empty tokens the f_is_capitalized_mid_sentence value of token
\* i is 1 iff its first character is upper-case, i > 0 and token i-1 is none
\* of '.', '!', '?', in the table of feature_extractor and in the table
\* tag_language feeds to the model alike.
C9_CapitalizedMidSentence ==
  /\ (x_result # Unset /\ ~raised(x_result)) =>
       \A i \in 1..Len(x_tokens) :
         value_at(x_result[2], i, "f_is_capitalized_mid_sentence")
           = << capitalized_mid_sentence(x_tokens, i) >>
  /\ \A t \in Threads :
       (df_features[t] # Unset /\ ~selection_failed(t)) =>
         \A i \in 1..Len(tokens[t]) :
           value_at(df_features[t][2], i, "f_is_capitalized_mid_sentence")
             = << capitalized_mid_sentence(tokens[t], i) >>

\* the ratio the specification gives a token without consonants
sentinel(token) ==
  IF \E k \in DOMAIN token : c_isalpha(token[k]) THEN Num(100, 1) ELSE Num(0, 1)

no_consonant(token) ==
  \A k \in DOMAIN token : c_isalpha(token[k]) => c_lower(token[k]) \in Vowels

\* C10: the vowel-consonant ratio is exactly 100 for a token with letters
\* but no consonant and exactly 0 for a token with no letter, in the table of
\* feature_extractor and in the table tag_language feeds to the model alike.
C10_RatioSentinels ==
  /\ (x_result # Unset /\ ~raised(x_result)) =>
       \A i \in 1..Len(x_tokens) :
         no_consonant(x_tokens[i]) =>
           value_at(x_result[2], i, "f_vowel_consonant_ratio") = << sentinel(x_tokens[i]) >>
  /\ \A t \in Threads :
       (df_features[t] # Unset /\ ~selection_failed(t)) =>
         \A i \in 1..Len(tokens[t]) :
           no_consonant(tokens[t][i]) =>
             value_at(df_features[t][2], i, "f_vowel_consonant_ratio")
               = << sentinel(tokens[t][i]) >>

(***************************************************************************)
(* Properties of the single feature functions.                             *)
(***************************************************************************)
called(func) == f_name = func

\* the rules of the OTH filter, each taken alone
numeric(token) == float_parses(remove_commas(token))

symbol_only(token) ==
  /\ token # << >>
  /\ \A k \in DOMAIN token : token[k] = "_" \/ ~(c_isalnum(token[k]) \/ token[k] = "_")

laughter(token) ==
  \E k \in 1..(Len(token) - 3) :
    lower(SubSeq(token, k, k + 3)) \in { <<"h","a","h","a">>, <<"h","e","h","e">> }

abbreviation(token) ==
  /\ \E k \in DOMAIN token : c_isalpha(token[k])
  /\ \A k \in DOMAIN token : ~c_islower(token[k])

\* C11: f_oth_filter returns the tag of the first rule that matches in the
\* order NUMERIC, SYMBOL, LAUGHTER, ABB, and REGULAR when none matches; so
\* "100,000.00" is NUMERIC and "HAHAHA" is LAUGHTER.
C11_OthFilterFirstMatch ==
  called("f_oth_filter") =>
    LET t == f_token
        tag == f_value[2]
    IN  /\ ~raised(f_value)
        /\ tag = "NUMERIC" <=> numeric(t)
        /\ tag = "SYMBOL" <=> ~numeric(t) /\ symbol_only(t)
        /\ tag = "LAUGHTER" <=> ~numeric(t) /\ ~symbol_only(t) /\ laughter(t)
        /\ tag = "ABB" <=>
             ~numeric(t) /\ ~symbol_only(t) /\ ~laughter(t) /\ abbreviation(t)
        /\ tag = "REGULAR" <=>
             ~numeric(t) /\ ~symbol_only(t) /\ ~laughter(t) /\ ~abbreviation(t)
        /\ t = <<"1","0","0",",","0","0","0",".","0","0">> => tag = "NUMERIC"
        /\ t = <<"H","A","H","A","H","A">> => tag = "LAUGHTER"

\* an all-caps laughter token went through the filter and came out LAUGHTER
C11_Witness ==
  /\ called("f_oth_filter")
  /\ laughter(f_token) /\ abbreviation(f_token)
  /\ f_value = Ok("LAUGHTER")

\* the rules of the duplication filter, each taken alone
word_dupe(token) ==
  \E d \in DOMAIN token :
    /\ token[d] = "-"
    /\ \A k \in DOMAIN token : token[k] = "-" => k = d
    /\ lower(SubSeq(token, 1, d - 1)) = lower(SubSeq(token, d + 1, Len(token)))

pair_dupe(token) ==
  \E k \in 1..(Len(token) - 3) :
    LET pair == lower(SubSeq(token, k, k + 1))
    IN  /\ c_isalpha(pair[1]) /\ c_isalpha(pair[2])
        /\ lower(SubSeq(token, k + 2, k + 3)) = pair

vowel_dupe(token) ==
  \E k \in 1..(Len(token) - 1) :
    /\ c_lower(token[k]) \in { "a", "e", "i", "o", "u" }
    /\ c_lower(token[k + 1]) = c_lower(token[k])

\* C12: f_has_pair_vowel_word_duplication returns the tag of the first rule
\* that matches in the order WORD_dupe, PAIR_dupe, VOWEL_dupe, and NO_dupe
\* when none matches; so "araw-araw" is WORD_dupe, "tatakbo" is PAIR_dupe
\* and "umiiyak" is VOWEL_dupe.
C12_DuplicationFirstMatch ==
  called("f_has_pair_vowel_word_duplication") =>
    LET t == f_token
        tag == f_value[2]
    IN  /\ ~raised(f_value)
        /\ tag = "WORD_dupe" <=> word_dupe(t)
        /\ tag = "PAIR_dupe" <=> ~word_dupe(t) /\ pair_dupe(t)
        /\ tag = "VOWEL_dupe" <=> ~word_dupe(t) /\ ~pair_dupe(t) /\ vowel_dupe(t)
        /\ tag = "NO_dupe" <=> ~word_dupe(t) /\ ~pair_dupe(t) /\ ~vowel_dupe(t)
        /\ t = <<"a","r","a","w","-","a","r","a","w">> => tag = "WORD_dupe"
        /\ t = <<"t","a","t","a","k","b","o">> => tag = "PAIR_dupe"
        /\ t = <<"u","m","i","i","y","a","k">> => tag = "VOWEL_dupe"

\* a token with both a repeated pair and a repeated vowel came out PAIR_dupe
C12_Witness ==
  /\ called("f_has_pair_vowel_word_duplication")
  /\ pair_dupe(f_token) /\ vowel_dupe(f_token)
  /\ f_value = Ok("PAIR_dupe")

consonant_letter(c) == c_isalpha(c) /\ c_lower(c) \notin { "a", "e", "i", "o", "u" }

\* the token takes the suffix ending ("in" or "an") in the sense of C13
takes_suffix(token, ending) ==
  /\ Len(token) > 3
  /\ lower(SubSeq(token, Len(token) - 1, Len(token))) = ending
  /\ LET third == c_lower(token[Len(token) - 2])
     IN  third = "u" \/ consonant_letter(third)

\* C13: f_suffix_fil returns IN (AN) if and only if the lower-cased token
\* is longer than 3, ends in "in" ("an") and its third-from-last character
\* is 'u' or a consonant letter, and NONE for every other token.
C13_SuffixFil ==
  called("f_suffix_fil") =>
    LET t == f_token
        tag == f_value[2]
    IN  /\ ~raised(f_value)
        /\ tag = "IN" <=> takes_suffix(t, <<"i","n">>)
        /\ tag = "AN" <=> takes_suffix(t, <<"a","n">>)
        /\ tag = "NONE" <=> ~takes_suffix(t, <<"i","n">>) /\ ~takes_suffix(t, <<"a","n">>)

\* thread t is at, or has just made, the call of _MODEL.predict
at_predict(t) == pc[t] = "L125" \/ (pc[t] = "done" /\ exit_line[t] \in { 126, 129 })

\* a non-empty sequence of non-empty tokens
all_non_empty(toks) == toks # << >> /\ \A k \in DOMAIN toks : toks[k] # << >>

\* C14: the table tag_language passes to predict has exactly the columns of
\* FEATURE_COLS in the declared order and one row per input token; for a
\* non-empty sequence of non-empty tokens the extractor's table has every
\* name of FEATURE_COLS, and the missing-column fallback is not taken.
C14_PredictSeesFeatureCols ==
  \A t \in Threads :
    /\ at_predict(t) =>
         LET X == df_features[t][2]
         IN  /\ X.columns = FEATURE_COLS
             /\ Len(X.data) = Len(tokens[t])
             /\ \A r \in DOMAIN X.data : Len(X.data[r]) = Len(FEATURE_COLS)
    /\ (pc[t] = "L118" /\ all_non_empty(tokens[t])) =>
         \A k \in DOMAIN FEATURE_COLS :
           \E c \in DOMAIN df_features[t][2].columns :
             df_features[t][2].columns[c] = FEATURE_COLS[k]
    /\ (pc[t] = "done" /\ all_non_empty(tokens[t])) => exit_line[t] # 121

\* tag_language is about to call predict for two tokens
C14_Witness ==
  /\ pc[MainThread] = "L125"
  /\ Len(tokens[MainThread]) = 2
  /\ all_non_empty(tokens[MainThread])
  /\ Len(df_features[MainThread][2].data) = 2

\* the prefix rules in the order of C15: the tag, the prefix, and the
\* characters that may follow the prefix
Anything == Chars

PrefixRules ==
  << [ tag |-> "MAKI", prefix |-> <<"m","a","k","i">>, next |-> Anything ],
     [ tag |-> "PAKI", prefix |-> <<"p","a","k","i">>, next |-> Anything ],
     [ tag |-> "NAKI", prefix |-> <<"n","a","k","i">>, next |-> Anything ],
     [ tag |-> "PALA", prefix |-> <<"p","a","l","a">>, next |-> Anything ],
     [ tag |-> "MALA", prefix |-> <<"m","a","l","a">>, next |-> Anything ],
     [ tag |-> "PANG", prefix |-> <<"p","a","n","g">>, next |-> Anything ],
     [ tag |-> "MAG", prefix |-> <<"m","a","g">>, next |-> Anything ],
     [ tag |-> "NAG", prefix |-> <<"n","a","g">>, next |-> Anything ],
     [ tag |-> "PAG", prefix |-> <<"p","a","g">>, next |-> Anything ],
     [ tag |-> "UM", prefix |-> <<"u","m">>, next |-> { "a", "e", "i", "o", "u" } ],
     [ tag |-> "IN", prefix |-> <<"i","n">>, next |-> { "a", "e", "i", "o", "u" } ],
     [ tag |-> "NI", prefix |-> <<"n","i">>, next |-> { "l" } ],
     [ tag |-> "MA", prefix |-> <<"m","a">>, next |-> Anything ],
     [ tag |-> "PA", prefix |-> <<"p","a">>, next |-> Anything ],
     [ tag |-> "NA", prefix |-> <<"n","a">>, next |-> Anything ],
     [ tag |-> "NG", prefix |-> <<"n","g">>, next |-> Anything ] >>

\* rule k matches the token under its length gate
prefix_rule_matches(k, token) ==
  LET rule == PrefixRules[k]
      n == Len(rule.prefix)
  IN  /\ Len(token) > n
      /\ lower(SubSeq(token, 1, n)) = rule.prefix
      /\ c_lower(token[n + 1]) \in rule.next

carries_infix(token, infix) ==
  /\ Len(token) > 3
  /\ consonant_letter(token[1])
  /\ lower(SubSeq(token, 2, 3)) = infix

\* "ng" occurs strictly inside the token
ng_inside(token) ==
  /\ Len(token) > 3
  /\ \E k \in 2..(Len(token) - 2) : lower(SubSeq(token, k, k + 1)) = <<"n","g">>

\* C16: for a non-empty token f_infix_fil returns IN (UM) only when the
\* lower-cased token is longer than 3, begins with a consonant letter and
\* has "in" ("um") at its 2nd-3rd characters; otherwise it returns NG
\* exactly when the token is longer than 3 with "ng" strictly inside, and
\* NONE in the remaining cases.
C16_InfixFil ==
  (called("f_infix_fil") /\ f_token # << >>) =>
    LET t == f_token
        tag == f_value[2]
    IN  /\ ~raised(f_value)
        /\ tag \in { "IN", "UM", "NG", "NONE" }
        /\ tag = "IN" => carries_infix(t, <<"i","n">>)
        /\ tag = "UM" => carries_infix(t, <<"u","m">>)
        /\ tag \notin { "IN", "UM" } => (tag = "NG" <=> ng_inside(t))

\* C17: no lower-cased token is in both reference word sets, so
\* f_get_language returns FIL for every lower-cased member of the Filipino
\* set, ENG for every lower-cased member of the English set, and NONE
\* otherwise, whichever set is tested first.
C17_WordSetsDisjoint ==
  called("f_get_language") =>
    LET token_lower == lower(f_token)
        tag == f_value[2]
    IN  /\ ~raised(f_value)
        /\ ~(token_lower \in ENG_WORDS /\ token_lower \in FIL_WORDS)
        /\ token_lower \in FIL_WORDS => tag = "FIL"
        /\ token_lower \in ENG_WORDS => tag = "ENG"
        /\ token_lower \notin ENG_WORDS \cup FIL_WORDS <=> tag = "NONE"

=============================================================================
